---- MODULE Spec2Model ----
(***************************************************************************)
(* A model of analyze_api_logs (function.py): the None check, the           *)
(* validate-and-accumulate loop over the log entries (one step per entry)   *)
(* and the computation of the report from the accumulators.                 *)
(*                                                                          *)
(* Values.  A Python dict is an insertion-ordered sequence of entries       *)
(* [key, ...].  A number is a record [t, v]: an integer v, or one of the     *)
(* floats +inf and -inf that min_response and max_response start from; a    *)
(* field may also be absent or hold a string.  Numbers in the input are     *)
(* finite (as in JSON; a float nan is outside the model) and whole.         *)
(* A timestamp string is a record                                           *)
(* [tag, wall, us, sfx, off]: wall is the wall-clock time written in the    *)
(* string, in whole seconds since 1970-01-01T00:00:00, us its fraction in   *)
(* microseconds, sfx the suffix ("Z", "+hh:mm" or none) and off the offset  *)
(* the suffix "+hh:mm" gives, in seconds.  Averages and rates are kept as   *)
(* exact fractions [num, den]; a comparison avg > c is num > c * den.       *)
(* Not modelled: request and response sizes (read and never used), the      *)
(* status_counter behind most_common_status, and the text of messages.      *)
(***************************************************************************)
EXTENDS Integers, Sequences, FiniteSets, TLC

\* ------------------------------------------------------------ bounds
MaxLogs == 2
MaxErrors == 11
MaxOk == 20
MaxErr == 3
MaxBurstStart == 40
MaxBurstGap == 21
MaxUserLogs == 5

\* ------------------------------------------------------------ values
None == "None"
Unhashable == "<unhashable>"

Num(v) == [t |-> "num", v |-> v]
PosInf == [t |-> "inf", v |-> 0]
NegInf == [t |-> "-inf", v |-> 0]
NoNum == [t |-> "none", v |-> 0]
StrNum == [t |-> "str", v |-> 0]

\* a < b on numbers (int, float +-inf)
PyLt(a, b) ==
    IF a.t = "-inf" THEN b.t # "-inf"
    ELSE IF a.t = "inf" THEN FALSE
    ELSE IF b.t = "inf" THEN TRUE
    ELSE IF b.t = "-inf" THEN FALSE
    ELSE a.v < b.v

\* min(a, b): a unless b < a;  max(a, b): a unless b > a
PyMin(a, b) == IF PyLt(b, a) THEN b ELSE a
PyMax(a, b) == IF PyLt(a, b) THEN b ELSE a

\* a + b on finite numbers
PyAdd(a, b) == Num(a.v + b.v)

Ts(wall, us, sfx, off) == [tag |-> "iso", wall |-> wall, us |-> us, sfx |-> sfx, off |-> off]
TsNone == [tag |-> "none", wall |-> 0, us |-> 0, sfx |-> "", off |-> 0]
TsBad == [tag |-> "bad", wall |-> 0, us |-> 0, sfx |-> "", off |-> 0]
NoDt == [tz |-> "none", wall |-> 0, us |-> 0, off |-> 0]

IntStatus(v) == [t |-> "int", v |-> v]
NoStatus == [t |-> "none", v |-> 0]
StrStatus == [t |-> "str", v |-> 0]

Entry(ts, ep, rt, st, user) ==
    [kind |-> "dict", timestamp |-> ts, endpoint |-> ep, method |-> "GET",
     response_time_ms |-> rt, status_code |-> st, user_id |-> user]
NotADict == [kind |-> "other", timestamp |-> TsNone, endpoint |-> None, method |-> None,
             response_time_ms |-> NoNum, status_code |-> NoStatus, user_id |-> None]

\* ------------------------------------------------------------ configuration
RESPONSE_THRESHOLDS == [medium |-> 500, high |-> 1000, critical |-> 2000]
ERROR_RATE_THRESHOLDS == [medium |-> 5, high |-> 10, critical |-> 15]

\* ------------------------------------------------------------ dict helpers
RECURSIVE IndexOf(_, _, _)
IndexOf(d, k, j) ==
    IF j > Len(d) THEN 0 ELSE IF d[j].key = k THEN j ELSE IndexOf(d, k, j + 1)
Has(d, k) == IndexOf(d, k, 1) # 0
Get(d, k) == d[IndexOf(d, k, 1)]
Keys(d) == {d[j].key : j \in 1..Len(d)}

RECURSIVE SumOver(_, _)
SumOver(s, j) == IF j > Len(s) THEN 0 ELSE s[j] + SumOver(s, j + 1)

\* ------------------------------------------------------------ timestamps
\* _parse_timestamp: a falsy or unparseable value raises ValueError; "Z" is
\* replaced by "+00:00"; a string with no suffix parses to a naive datetime.
ParseTimestamp(ts) ==
    IF ts.tag # "iso" THEN [exc |-> "ValueError", dt |-> NoDt]
    ELSE [exc |-> "",
          dt |-> [tz |-> IF ts.sfx = "" THEN "naive" ELSE "aware",
                  wall |-> ts.wall, us |-> ts.us,
                  off |-> IF ts.sfx = "Z" THEN 0 ELSE ts.off]]

\* the instant of a datetime in whole seconds (before the fraction is added);
\* a naive datetime is read in the process zone, taken here as UTC
WholeSecs(dt) == IF dt.tz = "aware" THEN dt.wall - dt.off ELSE dt.wall

\* a < b on datetimes of one kind
DtLt(a, b) ==
    \/ WholeSecs(a) < WholeSecs(b)
    \/ WholeSecs(a) = WholeSecs(b) /\ a.us < b.us

\* comparing an aware with a naive datetime raises TypeError
DtMixed(a, b) == a.tz # "none" /\ b.tz # "none" /\ a.tz # b.tz

\* int(t.timestamp()): truncation toward zero of seconds + us / 10^6
EpochSecs(dt) ==
    IF WholeSecs(dt) < 0 /\ dt.us > 0 THEN WholeSecs(dt) + 1 ELSE WholeSecs(dt)

\* ts.strftime("%Y-%m-%dT%H:00:00Z"): date and hour of the wall clock,
\* as the number of the hour since 1970-01-01T00
HourKey(dt) == dt.wall \div 3600

\* k[11:16] of an hour key: the label "HH:00", as the hour HH
HourLabel(k) == k % 24

VARIABLES logs, logsIsNone, pc, i, total, sum_response, earliest, latest, hourly,
          endpoint_info, user_counts, per_endpoint_timestamps, per_endpoint_errors,
          result

vars == <<logs, logsIsNone, pc, i, total, sum_response, earliest, latest, hourly,
          endpoint_info, user_counts, per_endpoint_timestamps, per_endpoint_errors,
          result>>

accumulators == <<total, sum_response, earliest, latest, hourly, endpoint_info,
                  user_counts, per_endpoint_timestamps, per_endpoint_errors>>


\* Validate without the test rt < 0 of line 75
ValidateKeepsNegative(entry) ==
    LET p == ParseTimestamp(entry.timestamp)
        rt == entry.response_time_ms
        status == entry.status_code
    IN [skip |-> \/ entry.kind # "dict"
                 \/ p.exc # ""
                 \/ rt.t = "none" \/ rt.t = "str"
                 \/ status.t = "none" \/ status.t = "str",
        ts |-> p.dt,
        endpoint |-> IF entry.endpoint = None THEN "/" ELSE entry.endpoint,
        method |-> IF entry.method = None THEN "GET" ELSE entry.method,
        rt |-> rt,
        status |-> status.v,
        user |-> IF entry.user_id = None THEN "anonymous" ELSE entry.user_id]

\* ------------------------------------------------------------ the loop body
\* lines 65-82: the try block.  A value that is no dict has no .get
\* (AttributeError), a bad timestamp raises ValueError: both are caught and
\* the entry is skipped, like a missing, non-numeric or negative
\* response_time_ms and a missing or non-int status_code.
Validate(entry) ==
    LET p == ParseTimestamp(entry.timestamp)
        rt == entry.response_time_ms
        status == entry.status_code
    IN [skip |-> \/ entry.kind # "dict"
                 \/ p.exc # ""
                 \/ rt.t = "none" \/ rt.t = "str" \/ PyLt(rt, Num(0))
                 \/ status.t = "none" \/ status.t = "str",
        ts |-> p.dt,
        endpoint |-> IF entry.endpoint = None THEN "/" ELSE entry.endpoint,
        method |-> IF entry.method = None THEN "GET" ELSE entry.method,
        rt |-> rt,
        status |-> status.v,
        user |-> IF entry.user_id = None THEN "anonymous" ELSE entry.user_id]

\* c[k] += 1 on a defaultdict(int) or Counter
Increment(c, k) ==
    IF Has(c, k) THEN [c EXCEPT ![IndexOf(c, k, 1)].n = @ + 1]
    ELSE Append(c, [key |-> k, n |-> 1])

\* lines 44-52: the default endpoint aggregate
NewEndpointData(k) ==
    [key |-> k, count |-> 0, sum_response |-> Num(0), min_response |-> PosInf,
     max_response |-> NegInf, errors |-> 0, methods |-> <<>>]

\* lines 95-102: the update of one endpoint aggregate
UpdateEndpointData(d, rt, status, method) ==
    [d EXCEPT !.count = @ + 1,
              !.sum_response = PyAdd(@, rt),
              !.min_response = PyMin(@, rt),
              !.max_response = PyMax(@, rt),
              !.errors = IF status >= 400 THEN @ + 1 ELSE @,
              !.methods = Increment(@, method)]

\* lines 94-102 on endpoint_info (a defaultdict)
AccumulateEndpoint(info, k, rt, status, method) ==
    IF Has(info, k)
    THEN [info EXCEPT ![IndexOf(info, k, 1)] = UpdateEndpointData(@, rt, status, method)]
    ELSE Append(info, UpdateEndpointData(NewEndpointData(k), rt, status, method))

\* d[k].append(t) on a defaultdict(list)
AppendTo(d, k, t) ==
    IF Has(d, k) THEN [d EXCEPT ![IndexOf(d, k, 1)].times = Append(@, t)]
    ELSE Append(d, [key |-> k, times |-> <<t>>])

\* line 85 (and 87): ts < earliest raises TypeError when one is naive and the
\* other aware; line 94 hashes the endpoint, line 102 the method and line
\* 104 the user
RaisesInBody(v) ==
    \/ DtMixed(v.ts, earliest)
    \/ v.endpoint = Unhashable
    \/ v.method = Unhashable
    \/ v.user = Unhashable

\* line 37
Enter ==
    /\ pc = "call"
    /\ IF logsIsNone
       THEN /\ pc' = "done"
            /\ result' = [kind |-> "raise", exc |-> "ValueError"]
       ELSE /\ pc' = "loop"
            /\ UNCHANGED result
    /\ UNCHANGED <<logs, logsIsNone, i, accumulators>>

\* lines 62-107: one iteration of the loop
LoopBody ==
    /\ pc = "loop"
    /\ i <= Len(logs)
    /\ LET v == Validate(logs[i]) IN
       /\ total' = total + 1
       /\ IF v.skip
          THEN /\ i' = i + 1
               /\ UNCHANGED <<pc, result, sum_response, earliest, latest, hourly,
                              endpoint_info, user_counts, per_endpoint_timestamps,
                              per_endpoint_errors>>
          ELSE IF RaisesInBody(v)
          THEN /\ pc' = "done"
               /\ result' = [kind |-> "raise", exc |-> "TypeError"]
               /\ UNCHANGED <<i, sum_response, earliest, latest, hourly,
                              endpoint_info, user_counts, per_endpoint_timestamps,
                              per_endpoint_errors>>
          ELSE /\ i' = i + 1
               /\ earliest' = IF earliest.tz = "none" \/ DtLt(v.ts, earliest)
                              THEN v.ts ELSE earliest
               /\ latest' = IF latest.tz = "none" \/ DtLt(latest, v.ts)
                            THEN v.ts ELSE latest
               /\ hourly' = Increment(hourly, HourKey(v.ts))
               /\ sum_response' = PyAdd(sum_response, v.rt)
               /\ endpoint_info' = AccumulateEndpoint(endpoint_info, v.endpoint, v.rt, v.status, v.method)
               /\ user_counts' = Increment(user_counts, v.user)
               /\ per_endpoint_timestamps' = AppendTo(per_endpoint_timestamps, v.endpoint, v.ts)
               /\ per_endpoint_errors' =
                    IF v.status >= 400
                    THEN AppendTo(per_endpoint_errors, v.endpoint, v.ts)
                    ELSE per_endpoint_errors
               /\ UNCHANGED <<pc, result>>
    /\ UNCHANGED <<logs, logsIsNone>>


\* ------------------------------------------------------------ the report
\* line 110
ValidRequests(info) == SumOver([j \in 1..Len(info) |-> info[j].count], 1)

\* line 130
TotalErrors(info) == SumOver([j \in 1..Len(info) |-> info[j].errors], 1)

\* x >= c in place of x > c
FracGe(num, den, c) == ~PyLt(num, Num(c * den))

\* x > c for a fraction x = num / den with den > 0 and a number num
FracGt(num, den, c) == PyLt(Num(c * den), num)

\* lines 139-147
EndpointStat(d) ==
    [endpoint |-> d.key,
     request_count |-> d.count,
     avg_response_time_ms |-> [num |-> d.sum_response, den |-> d.count],
     slowest_request_ms |-> d.max_response,
     fastest_request_ms |-> IF d.min_response # PosInf THEN d.min_response ELSE NoNum,
     error_count |-> d.errors]

\* lines 150-158: "" stands for None
SlowSeverity(d) ==
    IF FracGt(d.sum_response, d.count, RESPONSE_THRESHOLDS.critical) THEN "critical"
    ELSE IF FracGt(d.sum_response, d.count, RESPONSE_THRESHOLDS.high) THEN "high"
    ELSE IF FracGt(d.sum_response, d.count, RESPONSE_THRESHOLDS.medium) THEN "medium"
    ELSE ""

\* lines 169-177: err_rate = (errors / count) * 100
ErrorSeverity(d) ==
    IF FracGt(Num(100 * d.errors), d.count, ERROR_RATE_THRESHOLDS.critical) THEN "critical"
    ELSE IF FracGt(Num(100 * d.errors), d.count, ERROR_RATE_THRESHOLDS.high) THEN "high"
    ELSE IF FracGt(Num(100 * d.errors), d.count, ERROR_RATE_THRESHOLDS.medium) THEN "medium"
    ELSE ""

\* lines 159-166 and 178-184: the issues of one endpoint, in the order appended
EndpointIssues(d) ==
    (IF SlowSeverity(d) # ""
     THEN <<[type |-> "slow_endpoint", endpoint |-> d.key, severity |-> SlowSeverity(d)]>>
     ELSE <<>>)
    \o
    (IF ErrorSeverity(d) # ""
     THEN <<[type |-> "high_error_rate", endpoint |-> d.key, severity |-> ErrorSeverity(d)]>>
     ELSE <<>>)

\* lines 135-184: performance_issues over endpoint_info.items()
RECURSIVE PerformanceIssues(_, _)
PerformanceIssues(info, j) ==
    IF j > Len(info) THEN <<>>
    ELSE EndpointIssues(info[j]) \o PerformanceIssues(info, j + 1)

\* sorted(times): stable, by < on datetimes
SortedTimes(s) == SortSeq(s, DtLt)

\* sorted(...) on integers
IntLt(a, b) == a < b
SortedInts(s) == SortSeq(s, IntLt)

\* lines 208-209 and 246-247: while secs[right] - secs[left] > 300: left += 1
RECURSIVE AdvanceLeft(_, _, _)
AdvanceLeft(secs, right, left) ==
    IF secs[right] - secs[left] > 300 THEN AdvanceLeft(secs, right, left + 1) ELSE left

\* lines 205-211: window_counts
RECURSIVE WindowCounts(_, _, _)
WindowCounts(secs, right, left) ==
    IF right > Len(secs) THEN <<>>
    ELSE LET l == AdvanceLeft(secs, right, left)
         IN <<right - l + 1>> \o WindowCounts(secs, right + 1, l)

RECURSIVE MaxOf(_, _)
MaxOf(s, j) ==
    IF j = Len(s) THEN s[j]
    ELSE LET m == MaxOf(s, j + 1) IN IF s[j] > m THEN s[j] ELSE m

\* list.index(x), 1-based
RECURSIVE ListIndex(_, _, _)
ListIndex(s, x, j) == IF s[j] = x THEN j ELSE ListIndex(s, x, j + 1)

\* the spike test with peak > avg_rate in place of peak > 3 * avg_rate
IsSpikeNoFactor(sum, len, peak) == sum > 0 /\ peak * len > sum /\ peak >= 10

\* line 214: avg_rate = sum / len; avg_rate > 0 and peak > 3 * avg_rate and peak >= 10
IsSpike(sum, len, peak) == sum > 0 /\ peak * len > 3 * sum /\ peak >= 10

\* lines 201-222: the request_spike anomaly of one endpoint, if any
SpikeOf(e) ==
    LET times_sorted == SortedTimes(e.times)
        secs == [j \in 1..Len(times_sorted) |-> EpochSecs(times_sorted[j])]
        window_counts == WindowCounts(secs, 1, 1)
        sum == SumOver(window_counts, 1)
        peak == MaxOf(window_counts, 1)
    IN IF IsSpike(sum, Len(window_counts), peak)
       THEN <<[type |-> "request_spike", endpoint |-> e.key,
               timestamp |-> times_sorted[ListIndex(secs, secs[ListIndex(window_counts, peak, 1)], 1)],
               normal_rate |-> [num |-> sum, den |-> Len(window_counts)],
               actual_rate |-> peak,
               severity |-> IF peak > 50 THEN "high" ELSE "medium"]>>
       ELSE <<>>

RECURSIVE Spikes(_, _)
Spikes(pet, j) == IF j > Len(pet) THEN <<>> ELSE SpikeOf(pet[j]) \o Spikes(pet, j + 1)

\* lines 225-237: max_response > 2 * avg_rt and max_response > 500
DegradationOf(d) ==
    IF /\ d.max_response.t = "num" /\ d.sum_response.t = "num"
       /\ d.max_response.v * d.count > 2 * d.sum_response.v
       /\ d.max_response.v > RESPONSE_THRESHOLDS.medium
    THEN <<[type |-> "response_degradation", endpoint |-> d.key,
            avg_response_time_ms |-> [num |-> d.sum_response, den |-> d.count],
            peak_response_time_ms |-> d.max_response, severity |-> "high"]>>
    ELSE <<>>

RECURSIVE Degradations(_, _)
Degradations(info, j) ==
    IF j > Len(info) THEN <<>> ELSE DegradationOf(info[j]) \o Degradations(info, j + 1)

\* the scan without the break of line 256: every window with at least 10
\* errors is reported
RECURSIVE ClusterScanNoBreak(_, _, _, _)
ClusterScanNoBreak(k, secs, right, left) ==
    IF right > Len(secs) THEN <<>>
    ELSE LET l == AdvanceLeft(secs, right, left) IN
         (IF right - l + 1 >= 10
          THEN <<[type |-> "error_cluster", endpoint |-> k,
                  time_window |-> <<secs[l], secs[right]>>,
                  error_count |-> right - l + 1,
                  severity |-> IF right - l + 1 > 50 THEN "critical" ELSE "high"]>>
          ELSE <<>>)
         \o ClusterScanNoBreak(k, secs, right + 1, l)

\* lines 245-256: the scan of one endpoint's sorted error seconds; the first
\* window with at least 10 errors is reported and ends the scan
RECURSIVE ClusterScan(_, _, _, _)
ClusterScan(k, secs, right, left) ==
    IF right > Len(secs) THEN <<>>
    ELSE LET l == AdvanceLeft(secs, right, left) IN
         IF right - l + 1 >= 10
         THEN <<[type |-> "error_cluster", endpoint |-> k,
                 time_window |-> <<secs[l], secs[right]>>,
                 error_count |-> right - l + 1,
                 severity |-> IF right - l + 1 > 50 THEN "critical" ELSE "high"]>>
         ELSE ClusterScan(k, secs, right + 1, l)

\* lines 240-244
ClusterOf(e) ==
    ClusterScan(e.key, SortedInts([j \in 1..Len(e.times) |-> EpochSecs(e.times[j])]), 1, 1)

RECURSIVE Clusters(_, _)
Clusters(pee, j) == IF j > Len(pee) THEN <<>> ELSE ClusterOf(pee[j]) \o Clusters(pee, j + 1)

\* Counter.most_common(1)[0]: the first entry with the greatest count
RECURSIVE TopEntry(_, _)
TopEntry(c, j) ==
    IF j = Len(c) THEN c[j]
    ELSE LET m == TopEntry(c, j + 1) IN IF c[j].n >= m.n THEN c[j] ELSE m

\* the share test with >= 0.5 in place of > 0.5
IsSkewedAtHalf(top_count, all) == 2 * top_count >= all

\* line 260: top_count / sum(user_counts.values()) > 0.5
IsSkewed(top_count, all) == 2 * top_count > all

\* lines 259-266
UserAnomaly(c) ==
    LET top == TopEntry(c, 1)
    IN IF IsSkewed(top.n, SumOver([j \in 1..Len(c) |-> c[j].n], 1))
       THEN <<[type |-> "unusual_user_behavior", user_id |-> top.key,
               request_count |-> top.n, severity |-> "high"]>>
       ELSE <<>>

\* the sort key of an endpoint stat (its request_count) or of a Counter entry
Weight(x) == IF "request_count" \in DOMAIN x THEN x.request_count ELSE x.n

\* sorted(s, key = -Weight), and Counter.most_common: stable, descending
Heavier(a, b) == Weight(a) > Weight(b)
SortDesc(s) == SortSeq(s, Heavier)

\* line 304: user_counts.most_common(5)
TopUsers(c) ==
    LET sorted == SortDesc(c)
        top == SubSeq(sorted, 1, IF Len(sorted) < 5 THEN Len(sorted) ELSE 5)
    IN [j \in 1..Len(top) |-> [user_id |-> top[j].key, request_count |-> top[j].n]]

\* sorted(hourly.items()): ascending by hour key
KeyLt(a, b) == a.key < b.key
SortedByKey(s) == SortSeq(s, KeyLt)

\* lines 307-311: hourly_formatted[label] = hourly_formatted.get(label, 0) + v
RECURSIVE HourlyFormatted(_, _, _)
HourlyFormatted(items, j, acc) ==
    IF j > Len(items) THEN acc
    ELSE LET label == HourLabel(items[j].key)
         IN HourlyFormatted(items, j + 1,
                IF Has(acc, label)
                THEN [acc EXCEPT ![IndexOf(acc, label, 1)].n = @ + items[j].n]
                ELSE Append(acc, [key |-> label, n |-> items[j].n]))

\* lines 189-193: the endpoints a caching recommendation is written for
RECURSIVE Recommendations(_, _)
Recommendations(stats, j) ==
    IF j > Len(stats) THEN <<>>
    ELSE (IF /\ stats[j].request_count > 100
             /\ PyLt(stats[j].avg_response_time_ms.num, Num(500 * stats[j].request_count))
          THEN <<[endpoint |-> stats[j].endpoint, requests |-> stats[j].request_count]>>
          ELSE <<>>)
         \o Recommendations(stats, j + 1)

\* lines 273-289: get_ratio > 0.8, err_rate < 2 and max - min < 500 on an
\* endpoint with more than 100 requests; the savings are in 1/10000 USD
CachingOf(d) ==
    LET get == IF Has(d.methods, "GET") THEN Get(d.methods, "GET").n ELSE 0
    IN IF /\ d.count > 100
          /\ 10 * get > 8 * d.count
          /\ 100 * d.errors < 2 * d.count
          /\ d.max_response.v - d.min_response.v < 500
       THEN <<[endpoint |-> d.key,
               potential_cache_hit_rate |-> (100 * get) \div d.count,
               current_requests |-> d.count,
               potential_requests_saved |-> (8 * d.count) \div 10,
               estimated_cost_savings_usd |-> (8 * d.count) \div 10,
               recommended_ttl_minutes |-> 15,
               recommendation_confidence |-> "high"]>>
       ELSE <<>>

RECURSIVE CachingOpportunities(_, _)
CachingOpportunities(info, j) ==
    IF j > Len(info) THEN <<>> ELSE CachingOf(info[j]) \o CachingOpportunities(info, j + 1)

NoneRate == [t |-> "none", num |-> Num(0), den |-> 0]
Rate(num, den) == [t |-> "val", num |-> num, den |-> den]

\* lines 112-126: the canonical empty report
EmptyReport ==
    [kind |-> "report",
     summary |-> [total_requests |-> 0,
                  time_range |-> [start |-> NoDt, end |-> NoDt],
                  avg_response_time_ms |-> NoneRate,
                  error_rate_percentage |-> NoneRate],
     endpoint_stats |-> <<>>,
     performance_issues |-> <<>>,
     recommendations |-> <<>>,
     hourly_distribution |-> <<>>,
     top_users_by_requests |-> <<>>,
     anomalies |-> <<>>,
     caching_opportunities |-> <<>>]

\* lines 195-266: anomalies, in the order appended
Anomalies(info, pet, pee, users) ==
    Spikes(pet, 1) \o Degradations(info, 1) \o Clusters(pee, 1) \o UserAnomaly(users)

\* lines 128-323: the report of a run with at least one valid request
FullReport(valid_requests) ==
    [kind |-> "report",
     summary |-> [total_requests |-> valid_requests,
                  time_range |-> [start |-> earliest, end |-> latest],
                  avg_response_time_ms |-> Rate(sum_response, valid_requests),
                  error_rate_percentage |->
                      Rate(Num(100 * TotalErrors(endpoint_info)), valid_requests)],
     endpoint_stats |->
         SortDesc([j \in 1..Len(endpoint_info) |-> EndpointStat(endpoint_info[j])]),
     performance_issues |-> PerformanceIssues(endpoint_info, 1),
     recommendations |->
         Recommendations([j \in 1..Len(endpoint_info) |-> EndpointStat(endpoint_info[j])], 1),
     hourly_distribution |-> HourlyFormatted(SortedByKey(hourly), 1, <<>>),
     top_users_by_requests |-> TopUsers(user_counts),
     anomalies |-> Anomalies(endpoint_info, per_endpoint_timestamps,
                             per_endpoint_errors, user_counts),
     caching_opportunities |-> CachingOpportunities(endpoint_info, 1)]

\* lines 110-126 and 323: what the function returns after the loop
Report ==
    LET valid_requests == ValidRequests(endpoint_info)
    IN IF valid_requests = 0 THEN EmptyReport ELSE FullReport(valid_requests)

\* lines 109-323: the code after the loop
Finish ==
    /\ pc = "loop"
    /\ i > Len(logs)
    /\ pc' = "done"
    /\ result' = Report
    /\ UNCHANGED <<logs, logsIsNone, i, accumulators>>

Next == Enter \/ LoopBody \/ Finish

\* ------------------------------------------------------------ inputs
InitState ==
    /\ pc = "call"
    /\ i = 1
    /\ total = 0
    /\ sum_response = Num(0)
    /\ earliest = NoDt
    /\ latest = NoDt
    /\ hourly = <<>>
    /\ endpoint_info = <<>>
    /\ user_counts = <<>>
    /\ per_endpoint_timestamps = <<>>
    /\ per_endpoint_errors = <<>>
    /\ result = [kind |-> "none"]

\* 1970-01-01T10:00:00Z, user u1 on /a, 100 ms, status 200
T10 == 10 * 3600
BaseTs == Ts(T10, 0, "Z", 0)
Base == Entry(BaseTs, "/a", Num(100), IntStatus(200), "u1")

\* the base entry with one field changed, and a value that is no dict
Entries ==
    {Base, NotADict}
    \cup {[Base EXCEPT !.timestamp = t] :
            t \in {TsNone, TsBad, Ts(T10, 0, "", 0), Ts(T10, 0, "+hh:mm", 19800),
                   Ts(T10 + 86400 + 1800, 0, "Z", 0), Ts(T10 - 60, 500000, "Z", 0)}}
    \cup {[Base EXCEPT !.endpoint = e] : e \in {"/b", None, Unhashable}}
    \cup {[Base EXCEPT !.method = m] : m \in {"POST", None, Unhashable}}
    \cup {[Base EXCEPT !.response_time_ms = r] :
            r \in {NoNum, StrNum, Num(-10), Num(0), Num(2500)}}
    \cup {[Base EXCEPT !.status_code = c] :
            c \in {NoStatus, StrStatus, IntStatus(404), IntStatus(500)}}
    \cup {[Base EXCEPT !.user_id = u] : u \in {"u2", None, Unhashable}}

Init ==
    /\ InitState
    /\ \/ logsIsNone = TRUE /\ logs = <<>>
       \/ logsIsNone = FALSE /\ logs \in UNION {[1..n -> Entries] : n \in 0..MaxLogs}

Spec == Init /\ [][Next]_vars

\* MaxErr errors of one endpoint followed by up to MaxOk successes of one
\* endpoint, each block with one response time
ClassifyTimes == {100, 500, 1000, 2000, 2001}
ClassifyEntry(ep, rt, st) == Entry(BaseTs, ep, Num(rt), IntStatus(st), "u1")
InitClassify ==
    /\ InitState
    /\ logsIsNone = FALSE
    /\ \E e \in 0..MaxErr, s \in 0..MaxOk, re \in ClassifyTimes, rs \in ClassifyTimes,
          x1 \in {"/a", "/b"}, x2 \in {"/a", "/b"} :
          logs = [j \in 1..(e + s) |-> IF j <= e THEN ClassifyEntry(x1, re, 500)
                                                 ELSE ClassifyEntry(x2, rs, 200)]

SpecClassify == InitClassify /\ [][Next]_vars

\* up to MaxErrors errors of one endpoint, in any order, each at 10:00:00.75
\* or at one later time about 300 seconds after it
ErrorEntry(ts) == Entry(ts, "/a", Num(100), IntStatus(500), "u1")
EarlyTs == Ts(T10, 750000, "Z", 0)
LateTs ==
    {Ts(T10 + 300, 0, "Z", 0), Ts(T10 + 300, 750000, "Z", 0),
     Ts(T10 + 300, 900000, "Z", 0), Ts(T10 + 301, 0, "Z", 0)}
InitCluster ==
    /\ InitState
    /\ logsIsNone = FALSE
    /\ \E late \in LateTs :
          logs \in UNION {[1..n -> {ErrorEntry(EarlyTs), ErrorEntry(late)}] : n \in 0..MaxErrors}

SpecCluster == InitCluster /\ [][Next]_vars

\* one endpoint: 50 events, one every 12 seconds over 10 minutes, and a burst
\* of 15 events spaced g seconds apart (14 * g <= 300) that starts 15 * k
\* seconds after the first event
SpikeEntry(wall) == Entry(Ts(wall, 0, "Z", 0), "/a", Num(100), IntStatus(200), "u1")
SpikeLogs(k, g) ==
    [j \in 1..65 |-> IF j <= 50 THEN SpikeEntry(T10 + 12 * (j - 1))
                                ELSE SpikeEntry(T10 + 15 * k + g * (j - 51))]
InitSpike ==
    /\ InitState
    /\ logsIsNone = FALSE
    /\ \E k \in 0..MaxBurstStart, g \in 0..MaxBurstGap :
          /\ 14 * g <= 300
          /\ logs = SpikeLogs(k, g)

SpecSpike == InitSpike /\ [][Next]_vars


\* up to MaxUserLogs entries of three users (one of them the default user),
\* some of them invalid
UserEntries ==
    {[Base EXCEPT !.user_id = u] : u \in {"u1", "u2", None}}
    \cup {[Base EXCEPT !.response_time_ms = Num(-10)]}
InitUsers ==
    /\ InitState
    /\ logsIsNone = FALSE
    /\ logs \in UNION {[1..n -> UserEntries] : n \in 0..MaxUserLogs}

SpecUsers == InitUsers /\ [][Next]_vars

\* ------------------------------------------------------------ the claims' terms
\* What the claims say of the input, read off the log entries themselves.

\* an entry passes validation: timestamp present and parseable, response_time_ms
\* present, numeric and >= 0, status_code present and an integer
PassesValidation(e) ==
    /\ e.kind = "dict"
    /\ e.timestamp.tag = "iso"
    /\ e.response_time_ms.t = "num" /\ e.response_time_ms.v >= 0
    /\ e.status_code.t = "int"

ValidIdx == {j \in 1..Len(logs) : PassesValidation(logs[j])}

EndpointOf(e) == IF e.endpoint = None THEN "/" ELSE e.endpoint
UserOf(e) == IF e.user_id = None THEN "anonymous" ELSE e.user_id
IsError(e) == e.status_code.v >= 400

\* the instant a timestamp denotes: whole seconds since the epoch (UTC), and
\* the UTC hour of day it falls in
InstantSecs(ts) == ts.wall - (IF ts.sfx = "+hh:mm" THEN ts.off ELSE 0)
UtcHour(ts) == (InstantSecs(ts) \div 3600) % 24

Returned == pc = "done" /\ result.kind = "report"

AnomaliesOfType(ty) ==
    {j \in 1..Len(result.anomalies) : result.anomalies[j].type = ty}

\* C1: for every non-null input sequence the call returns a report and never
\* raises; a record-level problem only skips that record.
C1_NeverRaises == (pc = "done" /\ ~logsIsNone) => result.kind = "report"

CountEndpoint(ep) == Cardinality({j \in ValidIdx : EndpointOf(logs[j]) = ep})
CountUser(u) == Cardinality({j \in ValidIdx : UserOf(logs[j]) = u})

\* the aggregates of a report count exactly the valid entries
CountsOnlyValid ==
    /\ result.summary.total_requests = Cardinality(ValidIdx)
    /\ \A j \in 1..Len(result.endpoint_stats) :
          result.endpoint_stats[j].request_count =
              CountEndpoint(result.endpoint_stats[j].endpoint)
    /\ \A j \in 1..Len(result.top_users_by_requests) :
          result.top_users_by_requests[j].request_count =
              CountUser(result.top_users_by_requests[j].user_id)
    /\ SumOver([j \in 1..Len(result.hourly_distribution) |->
                   result.hourly_distribution[j].n], 1) = Cardinality(ValidIdx)
    /\ SumOver([j \in 1..Len(per_endpoint_timestamps) |->
                   Len(per_endpoint_timestamps[j].times)], 1) = Cardinality(ValidIdx)

\* C3: for every input sequence, total_requests equals the number of records
\* that pass validation, never more, and a record with a bad timestamp or a
\* negative response time is counted in no aggregate.
C3_TotalIsValidCount ==
    (pc = "done" /\ ~logsIsNone) => (result.kind = "report" /\ CountsOnlyValid)

\* C3, for the calls that return: the counts of the report are those of the
\* valid entries.
C3_WhenReturned == Returned => CountsOnlyValid

\* C4 as stated: the 50 + 15 scenario yields a request_spike anomaly for the
\* endpoint, of severity high or medium.
C4_SpikeReported ==
    Returned =>
        \E j \in AnomaliesOfType("request_spike") :
            /\ result.anomalies[j].endpoint = "/a"
            /\ result.anomalies[j].severity \in {"high", "medium"}

\* C4 as amended: in the 50 + 15 scenario, for every placement of the burst,
\* the spike test (avg_rate > 0, peak > 3 * avg_rate, peak >= 10 over the
\* trailing 300-second window counts) is not met and the report contains no
\* request_spike anomaly for the endpoint.
C4_NoSpikeReported ==
    Returned =>
        /\ \A j \in AnomaliesOfType("request_spike") : result.anomalies[j].endpoint # "/a"
        /\ result.summary.total_requests = 65

\* the burst of 15 at one instant, 5 minutes into the 10 minutes, was analysed
C4_Witness ==
    /\ Returned /\ Len(logs) = 65
    /\ \A j \in 51..65 : logs[j].timestamp.wall = T10 + 300
    /\ result.summary.total_requests = 65

\* the error entries of an endpoint, and whether entry b lies within 300
\* seconds after entry a (exactly 300 seconds counts as inside)
ErrorIdx(ep) == {j \in ValidIdx : EndpointOf(logs[j]) = ep /\ IsError(logs[j])}
Within300(a, b) ==
    LET d == InstantSecs(logs[b].timestamp) - InstantSecs(logs[a].timestamp)
    IN \/ d = 0 /\ logs[b].timestamp.us >= logs[a].timestamp.us
       \/ d > 0 /\ d < 300
       \/ d = 300 /\ logs[b].timestamp.us <= logs[a].timestamp.us
TenInSpan(ep) ==
    \E a \in ErrorIdx(ep) : Cardinality({b \in ErrorIdx(ep) : Within300(a, b)}) >= 10
ClustersOf(ep) ==
    {j \in AnomaliesOfType("error_cluster") : result.anomalies[j].endpoint = ep}

\* C5: an endpoint has exactly one error_cluster anomaly, with error_count >= 10,
\* when at least 10 of its errors lie within some span of at most 300 seconds,
\* and none otherwise, whatever the arrival order.
C5_ClusterIffTenInSpan ==
    Returned =>
        \A ep \in {EndpointOf(logs[j]) : j \in 1..Len(logs)} :
            IF TenInSpan(ep)
            THEN /\ Cardinality(ClustersOf(ep)) = 1
                 /\ \A j \in ClustersOf(ep) : result.anomalies[j].error_count >= 10
            ELSE ClustersOf(ep) = {}

\* C5, the direction that holds: ten errors within 300 seconds are reported,
\* exactly once.
C5_TenInSpanReported ==
    Returned =>
        \A ep \in {EndpointOf(logs[j]) : j \in 1..Len(logs)} :
            /\ Cardinality(ClustersOf(ep)) <= 1
            /\ TenInSpan(ep) => Cardinality(ClustersOf(ep)) = 1

HourlyOf(h) ==
    IF Has(result.hourly_distribution, h) THEN Get(result.hourly_distribution, h).n ELSE 0

\* C6: every valid record is counted in the bucket of the UTC hour of its
\* instant, and the values of hourly_distribution add up to total_requests.
C6_UtcHourBuckets ==
    Returned =>
        /\ \A h \in 0..23 :
              HourlyOf(h) = Cardinality({j \in ValidIdx : UtcHour(logs[j].timestamp) = h})
        /\ SumOver([j \in 1..Len(result.hourly_distribution) |->
                       result.hourly_distribution[j].n], 1) = result.summary.total_requests

\* C6, the part that holds: the hourly values add up to total_requests.
C6_HourlyAddsUp ==
    Returned =>
        SumOver([j \in 1..Len(result.hourly_distribution) |->
                    result.hourly_distribution[j].n], 1) = result.summary.total_requests


\* what the valid entries of an endpoint add up to
RECURSIVE EndpointTally(_, _)
EndpointTally(ep, j) ==
    IF j > Len(logs) THEN [count |-> 0, sum |-> 0, errors |-> 0]
    ELSE LET r == EndpointTally(ep, j + 1) IN
         IF PassesValidation(logs[j]) /\ EndpointOf(logs[j]) = ep
         THEN [count |-> r.count + 1,
               sum |-> r.sum + logs[j].response_time_ms.v,
               errors |-> r.errors + (IF IsError(logs[j]) THEN 1 ELSE 0)]
         ELSE r

\* the highest band whose cutoff the fraction num / den strictly exceeds
BandOf(num, den, cut) ==
    IF num > cut.critical * den THEN "critical"
    ELSE IF num > cut.high * den THEN "high"
    ELSE IF num > cut.medium * den THEN "medium"
    ELSE ""

IssuesOf(ty, ep) ==
    {j \in 1..Len(result.performance_issues) :
        result.performance_issues[j].type = ty /\ result.performance_issues[j].endpoint = ep}

\* the issues of type ty of endpoint ep are: none when band is "", and
\* otherwise one issue of that severity
IssueMatches(ty, ep, band) ==
    IF band = "" THEN IssuesOf(ty, ep) = {}
    ELSE /\ Cardinality(IssuesOf(ty, ep)) = 1
         /\ \A j \in IssuesOf(ty, ep) : result.performance_issues[j].severity = band

\* C7: an endpoint with a valid record has a slow_endpoint issue exactly when
\* its average response time is > 500 ms and a high_error_rate issue exactly
\* when its error rate is > 5 %, each of the highest band strictly exceeded
\* (500/1000/2000 ms, 5/10/15 %), independently, slow_endpoint first.
C7_IssuesByBand ==
    Returned =>
        \A ep \in {EndpointOf(logs[j]) : j \in ValidIdx} :
            LET t == EndpointTally(ep, 1) IN
            /\ IssueMatches("slow_endpoint", ep, BandOf(t.sum, t.count, RESPONSE_THRESHOLDS))
            /\ IssueMatches("high_error_rate", ep,
                            BandOf(100 * t.errors, t.count, ERROR_RATE_THRESHOLDS))
            /\ \A a \in IssuesOf("slow_endpoint", ep), b \in IssuesOf("high_error_rate", ep) :
                  a < b

\* an endpoint whose average is exactly 1000 ms (medium, not high) and whose
\* error rate is exactly 10 % (medium, not high) has both issues, in order
C7_Witness ==
    /\ Returned
    /\ LET t == EndpointTally("/a", 1) IN
       /\ t.count = 20 /\ t.sum = 1000 * t.count /\ t.errors = 2
    /\ IssuesOf("slow_endpoint", "/a") = {1}
    /\ IssuesOf("high_error_rate", "/a") = {2}
    /\ result.performance_issues[1].severity = "medium"
    /\ result.performance_issues[2].severity = "medium"

\* C8: an unusual_user_behavior anomaly is reported exactly when some user has
\* strictly more than 50 % of the valid requests; it is then the only one,
\* names that user with the user's count, and has severity high.
C8_SkewedUser ==
    Returned =>
        LET users == {UserOf(logs[j]) : j \in ValidIdx}
            skewed == {u \in users : 2 * CountUser(u) > Cardinality(ValidIdx)}
            found == AnomaliesOfType("unusual_user_behavior")
        IN /\ (skewed # {}) <=> (found # {})
           /\ Cardinality(found) <= 1
           /\ \A j \in found :
                 /\ result.anomalies[j].user_id \in skewed
                 /\ result.anomalies[j].request_count = CountUser(result.anomalies[j].user_id)
                 /\ result.anomalies[j].severity = "high"

\* a user with 3 of 5 valid requests was flagged
C8_Witness ==
    /\ Returned
    /\ Cardinality(ValidIdx) = 5 /\ CountUser("u2") = 3
    /\ \E j \in AnomaliesOfType("unusual_user_behavior") :
          result.anomalies[j].user_id = "u2" /\ result.anomalies[j].request_count = 3

\* a user with exactly half of the valid requests was not flagged
C8_HalfNotFlagged ==
    /\ Returned
    /\ Cardinality(ValidIdx) = 4 /\ CountUser("u1") = 2 /\ CountUser("u2") = 2
    /\ AnomaliesOfType("unusual_user_behavior") = {}

\* the endpoint aggregates during the fold
FoldInvariant ==
    \A j \in 1..Len(endpoint_info) :
        /\ endpoint_info[j].count >= endpoint_info[j].errors
        /\ endpoint_info[j].errors >= 0
        /\ endpoint_info[j].count > 0 =>
              ~PyLt(endpoint_info[j].max_response, endpoint_info[j].min_response)

RequestCountOf(info, ep) == IF Has(info, ep) THEN Get(info, ep).count ELSE 0

\* what appending logs[i] to the entries before it does to the report
AppendEffect ==
    /\ ValidRequests(endpoint_info') =
          ValidRequests(endpoint_info) + (IF PassesValidation(logs[i]) THEN 1 ELSE 0)
    /\ \A ep \in Keys(endpoint_info) :
          RequestCountOf(endpoint_info', ep) >= RequestCountOf(endpoint_info, ep)
    /\ FoldInvariant'

\* C9: appending one record to any input changes total_requests by +1 when
\* the record is valid and by 0 when it is not, and decreases no endpoint's
\* request_count; the aggregates keep count >= errors >= 0 and min <= max.
C9_AppendOne ==
    [][(pc = "loop" /\ i <= Len(logs)) => (pc' = "loop" /\ AppendEffect)]_vars

\* C9, for the steps that do not raise.
C9_WhenNotRaised ==
    [][(pc = "loop" /\ i <= Len(logs) /\ pc' = "loop") => AppendEffect]_vars

====
